---- MODULE Spec2Model ----
(***************************************************************************)
(* Model of the RetailCRM proxy (app/api/v1): the two endpoints            *)
(* GET /api/v1/clients/ (get_clients) and POST /api/v1/clients/            *)
(* (create_client), the pydantic model ClientCreate that validates the     *)
(* creation body, and the service layer RetailCRMService that issues the   *)
(* outbound call and classifies its outcome.                               *)
(*                                                                         *)
(* Text is a sequence of one-character strings, so that trimming, pattern  *)
(* matching and normalisation are computed character by character.        *)
(* Python's None is the value None below.  A dict is a function whose      *)
(* DOMAIN is its set of keys.  The Russian message literals of the source  *)
(* are written in Latin transliteration.                                   *)
(***************************************************************************)
EXTENDS Naturals, Sequences, FiniteSets, TLC

VARIABLES
    pc,           \* position of the request: idle, handling, awaiting, replied, done
    op,           \* endpoint of the request: none, create, list
    req,          \* the raw inbound request
    client_data,  \* create: the validated ClientCreate; list: the parsed query
    calls,        \* the outbound CRM calls issued so far, in order
    upstream,     \* what the CRM answered to the outbound call
    resp          \* the local response

vars == <<pc, op, req, client_data, calls, upstream, resp>>

----------------------------------------------------------------------------
(* Bounds of the inputs *)

MaxNameLen == 2
MaxPhoneLen == 3

(* Program constants *)

FirstNameMinLength == 1
FirstNameMaxLength == 100
LastNameMaxLength == 100
PhoneMaxMoreDigits == 14
LimitDefault == 20
LimitMin == 1
LimitMax == 100
PageDefault == 1
PageMin == 1
HTTP_201_CREATED == 201
HTTP_200_OK == 200
HTTP_422_UNPROCESSABLE_ENTITY == 422
HTTP_500_INTERNAL_SERVER_ERROR == 500
FormatErrorStatus == 500
TimeoutStatus == 504

----------------------------------------------------------------------------
(* Values *)

None == <<"None">>

EmptyDict == [k \in {} |-> TRUE]

Get(d, k, default) == IF k \in DOMAIN d THEN d[k] ELSE default

Digits == {"0", "1", "2", "3", "4", "5", "6", "7", "8", "9"}

Whitespace == {" "}

SeqsUpTo(S, n) == UNION {[1..k -> S] : k \in 0..n}

Repeat(c, n) == [i \in 1..n |-> c]

----------------------------------------------------------------------------
(* str.strip(): drops the whitespace at both ends *)

RECURSIVE LStrip(_)
LStrip(s) ==
    IF s # <<>> /\ Head(s) \in Whitespace THEN LStrip(Tail(s)) ELSE s

RECURSIVE RStrip(_)
RStrip(s) ==
    IF s # <<>> /\ s[Len(s)] \in Whitespace
    THEN RStrip(SubSeq(s, 1, Len(s) - 1))
    ELSE s

Strip(s) == RStrip(LStrip(s))

(* str.index(c): the first position of c, counted from 0 *)
Index(v, c) == (CHOOSE i \in 1..Len(v) : v[i] = c /\ \A j \in 1..(i - 1) : v[j] # c) - 1

----------------------------------------------------------------------------
(* ClientBase: the Field constraints, checked on the raw value before the  *)
(* field validators of ClientCreate run.                                   *)

(* first_name: str, required, min_length=1, max_length=100 *)
FirstNameField(v) ==
    /\ v # None
    /\ Len(v) >= FirstNameMinLength
    /\ Len(v) <= FirstNameMaxLength

(* last_name: Optional[str], max_length=100 *)
LastNameField(v) == v = None \/ Len(v) <= LastNameMaxLength

(* The pattern ^\+?[1-9]\d{1,14}$ *)
MatchesPhonePattern(v) ==
    LET d == IF v # <<>> /\ Head(v) = "+" THEN Tail(v) ELSE v
    IN  /\ Len(d) >= 2
        /\ Len(d) <= 1 + PhoneMaxMoreDigits
        /\ d[1] \in Digits \ {"0"}
        /\ \A i \in 2..Len(d) : d[i] \in Digits

(* A faulty variant of PhoneField: the pattern constraint is missing, so  *)
(* that only validate_phone decides.                                       *)
PhoneField_no_pattern(v) == TRUE

(* phone: Optional[str], pattern *)
PhoneField(v) == v = None \/ MatchesPhonePattern(v)

(* email: EmailStr, required: one "@", a non-empty local part, and a      *)
(* domain of non-empty labels separated by periods, at least two of them. *)
EmailField(v) ==
    /\ v # None
    /\ Cardinality({i \in 1..Len(v) : v[i] = "@"}) = 1
    /\ LET at == CHOOSE i \in 1..Len(v) : v[i] = "@"
           dom == SubSeq(v, at + 1, Len(v))
       IN  /\ at > 1
           /\ \A i \in 1..Len(v) : v[i] \notin Whitespace
           /\ v[1] # "." /\ v[at - 1] # "."
           /\ dom # <<>>
           /\ dom[1] # "." /\ dom[Len(dom)] # "."
           /\ \E i \in 1..Len(dom) : dom[i] = "."
           /\ \A i \in 1..(Len(v) - 1) : ~(v[i] = "." /\ v[i + 1] = ".")

----------------------------------------------------------------------------
(* ClientCreate: the field validators.  Each returns [ok, value].          *)

validate_first_name(v) ==
    IF Strip(v) = <<>>
    THEN [ok |-> FALSE, value |-> v]
    ELSE [ok |-> TRUE, value |-> Strip(v)]

validate_phone(v) ==
    IF v = None
    THEN [ok |-> TRUE, value |-> v]
    ELSE LET keep(c) == c \in Digits \/ (c = "+" /\ Index(v, c) = 0)
             cleaned == SelectSeq(v, keep)
         IN  IF cleaned = <<>>
             THEN [ok |-> FALSE, value |-> v]
             ELSE [ok |-> TRUE, value |-> cleaned]

(* Validation of the body of POST /clients/ as ClientCreate: a field is    *)
(* valid when its Field constraints hold and then its validator accepts.  *)
FirstNameValid(v) == FirstNameField(v) /\ validate_first_name(v).ok

PhoneValid(v) == PhoneField(v) /\ validate_phone(v).ok

ClientCreateValid(body) ==
    /\ FirstNameValid(body.first_name)
    /\ LastNameField(body.last_name)
    /\ EmailField(body.email)
    /\ PhoneValid(body.phone)

ClientCreate(body) ==
    [first_name |-> validate_first_name(body.first_name).value,
     last_name  |-> body.last_name,
     email      |-> body.email,
     phone      |-> validate_phone(body.phone).value]

----------------------------------------------------------------------------
(* RetailCRMClientError(message, status_code, details).  Every raise of    *)
(* the source passes status_code; a raise without details passes           *)
(* NoDetails, and `details or {}` stores the empty dict for it.            *)

NoDetails == EmptyDict

RetailCRMClientError(message, status_code, details) ==
    [raised      |-> "RetailCRMClientError",
     message     |-> message,
     status_code |-> status_code,
     details     |-> IF DOMAIN details = {} THEN EmptyDict ELSE details,
     result      |-> EmptyDict]

(* Any other exception that leaves the service: httpx.HTTPStatusError of   *)
(* raise_for_status, a transport error, AttributeError, JSONDecodeError.   *)
OtherException(name) ==
    [raised      |-> name,
     message     |-> "",
     status_code |-> 0,
     details     |-> EmptyDict,
     result      |-> EmptyDict]

Returned(result) ==
    [raised      |-> "none",
     message     |-> "",
     status_code |-> 0,
     details     |-> EmptyDict,
     result      |-> result]

(* Messages of the source (transliterated) *)
MSG_UNKNOWN_CREATE == "Neizvestnaya oshibka sozdaniya"
MSG_UNKNOWN_FETCH == "Neizvestnaya oshibka polucheniya"
MSG_FORMAT == "Oshibka formatirovaniya dannyh"
MSG_TIMEOUT == "Tajmaut soedineniya s RetailCRM"
MSG_INTERNAL == "Vnutrennyaya oshibka servera"
MSG_INTERNAL_CREATE == "Vnutrennyaya oshibka pri sozdanii klienta"
MSG_REQUIRED == "Email i imya yavlyayutsya obyazatelnymi polyami"
MSG_CREATED == "Klient uspeshno sozdan"
PREFIX_CREATE == "Oshibka pri sozdanii klienta: "
MSG_REQUEST_VALIDATION == "RequestValidationError"

(* Python truthiness of an optional text *)
Truthy(v) == v # None /\ v # <<>>

(* response.is_success, as raise_for_status tests it *)
IsSuccess(status) == status >= 200 /\ status <= 299

----------------------------------------------------------------------------
(* RetailCRMService.create_customer, up to the await: the customer dict,   *)
(* json.dumps of it and the form data of the POST.                         *)

customer_data(cd) ==
    [firstName |-> cd.first_name,
     lastName  |-> cd.last_name,
     email     |-> cd.email]
    @@ (IF Truthy(cd.phone)
        THEN [phones |-> <<[number |-> cd.phone]>>]
        ELSE EmptyDict)

(* json.dumps followed by the CRM's parse of the text: a key of the dict   *)
(* is a key of the JSON object, and None is written as null.              *)
JsonNull == <<"null">>

json_dumps(d) ==
    [k \in DOMAIN d |->
        IF k = "phones" THEN d[k]
        ELSE IF d[k] = None THEN JsonNull ELSE d[k]]

create_customer_call(cd) ==
    [method |-> "POST",
     path   |-> "/api/v5/customers/create",
     data   |-> [customer |-> json_dumps(customer_data(cd))],
     params |-> EmptyDict]

(* RetailCRMService.create_customer, after the await: reply is what the    *)
(* outbound POST produced.                                                 *)
create_customer(reply) ==
    IF reply.kind = "timeout"
    THEN RetailCRMClientError(MSG_TIMEOUT, TimeoutStatus, NoDetails)
    ELSE IF reply.kind = "connect_error"
    THEN OtherException("ConnectError")
    ELSE IF ~IsSuccess(reply.status)
    THEN OtherException("HTTPStatusError")
    ELSE IF reply.body = "unparsable"
    THEN RetailCRMClientError(MSG_FORMAT, FormatErrorStatus, NoDetails)
    ELSE IF reply.body = "array"
    THEN OtherException("AttributeError")
    ELSE LET result == reply.json
         IN  IF ~Get(result, "success", FALSE)
             THEN RetailCRMClientError(
                      Get(result, "errorMsg", MSG_UNKNOWN_CREATE),
                      reply.status,
                      [errors |-> Get(result, "errors", <<>>)])
             ELSE Returned(result)

----------------------------------------------------------------------------
(* build_customer_filters and RetailCRMService.fetch_customers             *)

DigitChar(n) == <<"0", "1", "2", "3", "4", "5", "6", "7", "8", "9">>[n + 1]

RECURSIVE Pow10(_)
Pow10(n) == IF n = 0 THEN 1 ELSE 10 * Pow10(n - 1)

ZeroPad(n, w) == [i \in 1..w |-> DigitChar((n \div Pow10(w - i)) % 10)]

(* date.isoformat(): YYYY-MM-DD *)
isoformat(d) ==
    ZeroPad(d.year, 4) \o <<"-">> \o ZeroPad(d.month, 2) \o <<"-">> \o ZeroPad(d.day, 2)

(* A faulty variant of build_customer_filters: the date opens a range     *)
(* that is never closed (dateTo is missing).                               *)
build_customer_filters_open_range(name, email, created_at) ==
    (IF Truthy(name) THEN [name |-> name] ELSE EmptyDict)
    @@ (IF Truthy(email) THEN [email |-> email] ELSE EmptyDict)
    @@ (IF created_at # <<>>
        THEN [dateFrom |-> isoformat(created_at[1])]
        ELSE EmptyDict)

(* An optional date is <<>> (None) or <<d>>; a date is always truthy. *)
build_customer_filters(name, email, created_at) ==
    (IF Truthy(name) THEN [name |-> name] ELSE EmptyDict)
    @@ (IF Truthy(email) THEN [email |-> email] ELSE EmptyDict)
    @@ (IF created_at # <<>>
        THEN [dateFrom |-> isoformat(created_at[1]),
              dateTo   |-> isoformat(created_at[1])]
        ELSE EmptyDict)

FilterParam(k) ==
    CASE k = "name" -> "filter[name]"
      [] k = "email" -> "filter[email]"
      [] k = "dateFrom" -> "filter[dateFrom]"
      [] k = "dateTo" -> "filter[dateTo]"

fetch_params(filters, limit, page) ==
    LET ks == {k \in DOMAIN filters : filters[k] # None}
    IN  [limit |-> limit, page |-> page]
        @@ [p \in {FilterParam(k) : k \in ks} |->
               filters[CHOOSE k \in ks : FilterParam(k) = p]]

fetch_customers_call(filters, limit, page) ==
    [method |-> "GET",
     path   |-> "/api/v5/customers",
     data   |-> EmptyDict,
     params |-> fetch_params(filters, limit, page)]

(* A faulty variant of fetch_customers: httpx.TimeoutException is not     *)
(* caught and leaves the service as it is.                                 *)
fetch_customers_timeout_uncaught(reply) ==
    IF reply.kind \in {"timeout", "connect_error"}
    THEN OtherException("TransportError")
    ELSE IF ~IsSuccess(reply.status)
    THEN OtherException("HTTPStatusError")
    ELSE IF reply.body = "unparsable"
    THEN OtherException("JSONDecodeError")
    ELSE IF reply.body = "array"
    THEN OtherException("AttributeError")
    ELSE LET result == reply.json
         IN  IF ~Get(result, "success", FALSE)
             THEN RetailCRMClientError(
                      Get(result, "errorMsg", MSG_UNKNOWN_FETCH),
                      reply.status,
                      NoDetails)
             ELSE Returned(result)

fetch_customers(reply) ==
    IF reply.kind = "timeout"
    THEN RetailCRMClientError(MSG_TIMEOUT, TimeoutStatus, NoDetails)
    ELSE IF reply.kind = "connect_error"
    THEN OtherException("ConnectError")
    ELSE IF ~IsSuccess(reply.status)
    THEN OtherException("HTTPStatusError")
    ELSE IF reply.body = "unparsable"
    THEN OtherException("JSONDecodeError")
    ELSE IF reply.body = "array"
    THEN OtherException("AttributeError")
    ELSE LET result == reply.json
         IN  IF ~Get(result, "success", FALSE)
             THEN RetailCRMClientError(
                      Get(result, "errorMsg", MSG_UNKNOWN_FETCH),
                      reply.status,
                      NoDetails)
             ELSE Returned(result)

----------------------------------------------------------------------------
(* The local responses.  HTTPException(status_code, detail) is answered    *)
(* with status_code and the detail; a returned dict with the status of     *)
(* the route.  message is the sequence of the parts of the message text.   *)

HTTPException(status_code, error, message, details) ==
    [status  |-> status_code,
     error   |-> error,
     message |-> message,
     details |-> details,
     data    |-> EmptyDict]

Success(status_code, data) ==
    [status  |-> status_code,
     error   |-> "none",
     message |-> <<>>,
     details |-> EmptyDict,
     data    |-> data]

(* The answer to a request whose body or query fails validation, given    *)
(* before the endpoint function is entered.                                *)
RequestValidationError ==
    HTTPException(HTTP_422_UNPROCESSABLE_ENTITY, "validation_error",
                  <<MSG_REQUEST_VALIDATION>>, EmptyDict)

NoResponse == Success(0, EmptyDict)

(* A faulty variant of create_client: the message of the service error   *)
(* is passed on as it is, without the prefix of the endpoint.              *)
create_client_no_prefix(cd, r) ==
    IF r.raised = "none"
    THEN Success(HTTP_201_CREATED,
                 [customer_id       |-> Get(r.result, "id", None),
                  message           |-> MSG_CREATED,
                  retailcrm_success |-> TRUE,
                  customer_email    |-> cd.email])
    ELSE IF r.raised = "RetailCRMClientError"
    THEN HTTPException(r.status_code, "retailcrm_error",
                       <<r.message>>, r.details)
    ELSE HTTPException(HTTP_500_INTERNAL_SERVER_ERROR, "internal_error",
                       <<MSG_INTERNAL_CREATE>>, EmptyDict)

(* create_client, from the return of create_customer on: r is what the    *)
(* service returned or raised.                                             *)
create_client(cd, r) ==
    IF r.raised = "none"
    THEN Success(HTTP_201_CREATED,
                 [customer_id       |-> Get(r.result, "id", None),
                  message           |-> MSG_CREATED,
                  retailcrm_success |-> TRUE,
                  customer_email    |-> cd.email])
    ELSE IF r.raised = "RetailCRMClientError"
    THEN HTTPException(r.status_code, "retailcrm_error",
                       <<PREFIX_CREATE, r.message>>, r.details)
    ELSE HTTPException(HTTP_500_INTERNAL_SERVER_ERROR, "internal_error",
                       <<MSG_INTERNAL_CREATE>>, EmptyDict)

(* get_clients, from the return of fetch_customers on *)
get_clients(q, r) ==
    IF r.raised = "none"
    THEN Success(HTTP_200_OK,
                 [customers  |-> Get(r.result, "customers", <<>>),
                  pagination |-> Get(r.result, "pagination", EmptyDict),
                  total      |-> Len(Get(r.result, "customers", <<>>)),
                  page       |-> q.page,
                  limit      |-> q.limit])
    ELSE IF r.raised = "RetailCRMClientError"
    THEN HTTPException(r.status_code, "retailcrm_error",
                       <<r.message>>, r.details)
    ELSE HTTPException(HTTP_500_INTERNAL_SERVER_ERROR, "internal_error",
                       <<MSG_INTERNAL>>, EmptyDict)

----------------------------------------------------------------------------
(* The query of GET /clients/: limit is Query(20, ge=1, le=100), page is   *)
(* Query(1, ge=1), created_at an optional date.  An optional value that    *)
(* is not text is <<>> (absent) or <<x>>.                                  *)

DaysInMonth(y, m) ==
    IF m = 2
    THEN (IF (y % 4 = 0 /\ y % 100 # 0) \/ y % 400 = 0 THEN 29 ELSE 28)
    ELSE IF m \in {4, 6, 9, 11} THEN 30 ELSE 31

IsDate(d) ==
    /\ d.year \in 1..9999
    /\ d.month \in 1..12
    /\ d.day \in 1..DaysInMonth(d.year, d.month)

QueryInt(raw, default) == IF raw = <<>> THEN default ELSE raw[1]

QueryValid(query) ==
    /\ query.created_at # <<>> => IsDate(query.created_at[1])
    /\ QueryInt(query.limit, LimitDefault) >= LimitMin
    /\ QueryInt(query.limit, LimitDefault) <= LimitMax
    /\ QueryInt(query.page, PageDefault) >= PageMin

Query(query) ==
    [name       |-> query.name,
     email      |-> query.email,
     created_at |-> query.created_at,
     limit      |-> QueryInt(query.limit, LimitDefault),
     page       |-> QueryInt(query.page, PageDefault)]

----------------------------------------------------------------------------
(* The inputs: request bodies, queries, and the answers of the CRM         *)

FirstNames ==
    {None} \cup SeqsUpTo({" ", "A"}, MaxNameLen)
           \cup {Repeat("A", FirstNameMaxLength), Repeat("A", FirstNameMaxLength + 1)}

LastNames == {None, <<>>, <<"B">>, Repeat("B", LastNameMaxLength + 1)}

Emails ==
    {None, <<>>, <<"a">>, <<"a", "@", "b">>, <<"a", "@", "b", ".", "c">>,
     <<"@", "b", ".", "c">>, <<"a", "@", "@", "b", ".", "c">>,
     <<"a", "@", "b", ".">>, <<"a", " ", "@", "b", ".", "c">>}

Phones == {None} \cup SeqsUpTo({"+", "0", "1", " ", "-"}, MaxPhoneLen)

Bodies ==
    [first_name : FirstNames, last_name : LastNames,
     email : Emails, phone : Phones]

Dates ==
    {[year |-> 2025, month |-> 12, day |-> 15],
     [year |-> 2024, month |-> 2, day |-> 29],
     [year |-> 2025, month |-> 2, day |-> 29]}

Queries ==
    [name : {None, <<>>, <<"E">>},
     email : {None, <<>>, <<"a", "@", "b", ".", "c">>},
     created_at : {<<>>} \cup {<<d>> : d \in Dates},
     limit : {<<>>, <<0>>, <<1>>, <<100>>, <<101>>},
     page : {<<>>, <<0>>, <<2>>}]

UpstreamStatuses == {200, 201, 400, 503}

ERRORS == << <<"email", "taken">> >>

(* The JSON objects the CRM may answer: success, errorMsg and errors each *)
(* present or not, and payload, the data of the operation, or nothing.    *)
JsonObjects(payload) ==
    {s @@ m @@ e @@ d :
        s \in {EmptyDict, [success |-> TRUE], [success |-> FALSE]},
        m \in {EmptyDict, [errorMsg |-> "X"]},
        e \in {EmptyDict, [errors |-> ERRORS]},
        d \in {EmptyDict, payload}}

Reply(kind, status, body, json) ==
    [kind |-> kind, status |-> status, body |-> body, json |-> json]

NoReply == Reply("none", 0, "none", EmptyDict)

Replies(payload) ==
    {Reply("timeout", 0, "none", EmptyDict),
     Reply("connect_error", 0, "none", EmptyDict)}
    \cup {Reply("response", st, b, EmptyDict) :
            st \in UpstreamStatuses, b \in {"unparsable", "array"}}
    \cup {Reply("response", st, "object", j) :
            st \in UpstreamStatuses, j \in JsonObjects(payload)}

CreatePayload == [id |-> 12345]

ListPayload ==
    [customers  |-> <<[id |-> 1], [id |-> 2]>>,
     pagination |-> [limit |-> 20, totalCount |-> 2,
                     currentPage |-> 1, totalPageCount |-> 1]]

----------------------------------------------------------------------------
(* The state machine of one request *)

Init ==
    /\ pc = "idle"
    /\ op = "none"
    /\ req = EmptyDict
    /\ client_data = EmptyDict
    /\ calls = <<>>
    /\ upstream = NoReply
    /\ resp = NoResponse

(* POST /clients/ with a body that fails validation as ClientCreate *)
PostClientsInvalid ==
    /\ pc = "idle"
    /\ \E body \in Bodies :
        /\ ~ClientCreateValid(body)
        /\ req' = body
    /\ op' = "create"
    /\ resp' = RequestValidationError
    /\ pc' = "done"
    /\ UNCHANGED <<client_data, calls, upstream>>

(* POST /clients/ with a valid body: create_client is entered *)
PostClientsValid ==
    /\ pc = "idle"
    /\ \E body \in Bodies :
        /\ ClientCreateValid(body)
        /\ req' = body
        /\ client_data' = ClientCreate(body)
    /\ op' = "create"
    /\ pc' = "handling"
    /\ UNCHANGED <<calls, upstream, resp>>

(* create_client up to the await of the outbound POST *)
CreateClientCall ==
    /\ pc = "handling"
    /\ op = "create"
    /\ IF ~Truthy(client_data.email) \/ ~Truthy(client_data.first_name)
       THEN /\ resp' = HTTPException(HTTP_422_UNPROCESSABLE_ENTITY,
                                     "validation_error", <<MSG_REQUIRED>>, EmptyDict)
            /\ pc' = "done"
            /\ UNCHANGED calls
       ELSE /\ calls' = Append(calls, create_customer_call(client_data))
            /\ pc' = "awaiting"
            /\ UNCHANGED resp
    /\ UNCHANGED <<op, req, client_data, upstream>>

(* GET /clients/ with a query that fails validation *)
GetClientsInvalid ==
    /\ pc = "idle"
    /\ \E query \in Queries :
        /\ ~QueryValid(query)
        /\ req' = query
    /\ op' = "list"
    /\ resp' = RequestValidationError
    /\ pc' = "done"
    /\ UNCHANGED <<client_data, calls, upstream>>

(* GET /clients/ with a valid query: get_clients is entered *)
GetClientsValid ==
    /\ pc = "idle"
    /\ \E query \in Queries :
        /\ QueryValid(query)
        /\ req' = query
        /\ client_data' = Query(query)
    /\ op' = "list"
    /\ pc' = "handling"
    /\ UNCHANGED <<calls, upstream, resp>>

(* get_clients up to the await of the outbound GET *)
GetClientsCall ==
    /\ pc = "handling"
    /\ op = "list"
    /\ calls' = Append(calls,
           fetch_customers_call(
               build_customer_filters(client_data.name, client_data.email,
                                      client_data.created_at),
               client_data.limit, client_data.page))
    /\ pc' = "awaiting"
    /\ UNCHANGED <<op, req, client_data, upstream, resp>>

(* The CRM answers the outbound call, or the call fails *)
CRMReplies ==
    /\ pc = "awaiting"
    /\ upstream' \in Replies(IF op = "create" THEN CreatePayload ELSE ListPayload)
    /\ pc' = "replied"
    /\ UNCHANGED <<op, req, client_data, calls, resp>>

(* A faulty variant of CreateClientRespond: a timed-out call is issued    *)
(* once more before the request is answered.                               *)
CreateClientRespond_retry ==
    /\ pc = "replied"
    /\ op = "create"
    /\ IF upstream.kind = "timeout" /\ Len(calls) < 2
       THEN /\ calls' = Append(calls, create_customer_call(client_data))
            /\ pc' = "awaiting"
            /\ UNCHANGED resp
       ELSE /\ resp' = create_client(client_data, create_customer(upstream))
            /\ pc' = "done"
            /\ UNCHANGED calls
    /\ UNCHANGED <<op, req, client_data, upstream>>

(* create_client from the await on *)
CreateClientRespond ==
    /\ pc = "replied"
    /\ op = "create"
    /\ resp' = create_client(client_data, create_customer(upstream))
    /\ pc' = "done"
    /\ UNCHANGED <<op, req, client_data, calls, upstream>>

(* get_clients from the await on *)
GetClientsRespond ==
    /\ pc = "replied"
    /\ op = "list"
    /\ resp' = get_clients(client_data, fetch_customers(upstream))
    /\ pc' = "done"
    /\ UNCHANGED <<op, req, client_data, calls, upstream>>

Next ==
    \/ PostClientsInvalid
    \/ PostClientsValid
    \/ CreateClientCall
    \/ GetClientsInvalid
    \/ GetClientsValid
    \/ GetClientsCall
    \/ CRMReplies
    \/ CreateClientRespond
    \/ GetClientsRespond

Spec == Init /\ [][Next]_vars

----------------------------------------------------------------------------
(* Properties *)

Done == pc = "done"

(* The request passed validation and its endpoint function was entered *)
Accepted == DOMAIN client_data # {}

(* The CRM answered status st with a JSON object *)
AnsweredObject(st) ==
    /\ upstream.kind = "response"
    /\ upstream.status = st
    /\ upstream.body = "object"

SuccessIsFalse(j) == "success" \in DOMAIN j /\ j.success = FALSE

ErrorKinds == {"validation_error", "retailcrm_error", "internal_error"}

(* C1: for both endpoints, when the CRM answers the outbound call with a   *)
(* non-2xx status S, the local response is a retailcrm_error with HTTP     *)
(* status S.                                                               *)
C1_UpstreamStatusPropagated ==
    (Done /\ upstream.kind = "response" /\ ~IsSuccess(upstream.status))
        => (resp.error = "retailcrm_error" /\ resp.status = upstream.status)

(* C2: a valid create request that the CRM answers with HTTP 200 and a     *)
(* JSON object whose success is false gets a retailcrm_error whose message *)
(* is the prefix of the endpoint followed by errorMsg (the fixed default   *)
(* text when errorMsg is absent) and whose details hold, under the key     *)
(* errors, the errors of the answer.                                       *)
C2_CreateDomainFailure ==
    (Done /\ op = "create" /\ AnsweredObject(HTTP_200_OK)
          /\ SuccessIsFalse(upstream.json))
        => /\ resp.error = "retailcrm_error"
           /\ resp.message =
                 <<"Oshibka pri sozdanii klienta: ",
                   IF "errorMsg" \in DOMAIN upstream.json
                   THEN upstream.json.errorMsg
                   ELSE "Neizvestnaya oshibka sozdaniya">>
           /\ "errors" \in DOMAIN resp.details
           /\ "errors" \in DOMAIN upstream.json
                 => resp.details.errors = upstream.json.errors

C2_Witness ==
    /\ Done /\ op = "create" /\ AnsweredObject(HTTP_200_OK)
    /\ SuccessIsFalse(upstream.json)
    /\ "errorMsg" \in DOMAIN upstream.json
    /\ "errors" \in DOMAIN upstream.json
    /\ resp.message = <<PREFIX_CREATE, "X">>
    /\ resp.details = [errors |-> ERRORS]

(* C3: every response that carries an error envelope has an HTTP status    *)
(* in the 4xx or 5xx range.                                                *)
C3_ErrorEnvelopeStatus ==
    (Done /\ resp.error \in ErrorKinds)
        => (resp.status >= 400 /\ resp.status <= 599)

(* C4: the JSON object sent in the form field customer has the key         *)
(* firstName (the trimmed first_name), the key email, the key lastName     *)
(* exactly when last_name was supplied, and the key phones exactly when    *)
(* phone was supplied, and then phones is the list of the single object    *)
(* {number: the normalized phone}.                                         *)
C4_CustomerPayload ==
    \A i \in 1..Len(calls) :
        calls[i].method = "POST" =>
            LET c == calls[i].data.customer
            IN  /\ "firstName" \in DOMAIN c
                /\ c.firstName = Strip(req.first_name)
                /\ "email" \in DOMAIN c
                /\ c.email = req.email
                /\ "lastName" \in DOMAIN c <=> req.last_name # None
                /\ "phones" \in DOMAIN c <=> req.phone # None
                /\ req.phone # None =>
                       c.phones = <<[number |-> client_data.phone]>>

(* The characters the claim C5 calls extraneous *)
Extraneous == {" ", "-"}

WithoutExtraneous(v) == SelectSeq(v, LAMBDA c : c \notin Extraneous)

(* C5: a phone that holds spaces or dashes around a valid digit pattern is *)
(* accepted by the validation of the create request and normalized to the  *)
(* digits with their leading "+", which match the international pattern.   *)
C5_PhoneNormalized ==
    (/\ op = "create"
     /\ req.phone # None
     /\ \E i \in 1..Len(req.phone) : req.phone[i] \in Extraneous
     /\ MatchesPhonePattern(WithoutExtraneous(req.phone))
     /\ FirstNameValid(req.first_name)
     /\ LastNameField(req.last_name)
     /\ EmailField(req.email))
        => /\ Accepted
           /\ client_data.phone = WithoutExtraneous(req.phone)
           /\ MatchesPhonePattern(client_data.phone)

(* What the claim C6 calls an invalid create request *)
Blank(v) == \A i \in 1..Len(v) : v[i] \in Whitespace

C6_Invalid(body) ==
    \/ body.first_name = None
    \/ Blank(body.first_name)
    \/ body.email = None
    \/ ~EmailField(body.email)
    \/ (body.phone # None /\ ~MatchesPhonePattern(body.phone))

UpstreamFailed ==
    ~(/\ upstream.kind = "response"
      /\ IsSuccess(upstream.status)
      /\ upstream.body = "object"
      /\ "success" \in DOMAIN upstream.json
      /\ upstream.json.success = TRUE)

(* C7: a request that passes validation issues exactly one outbound call   *)
(* (POST /api/v5/customers/create for creation, GET /api/v5/customers for  *)
(* listing) on every path; no failure leads to a second call, and every    *)
(* failure ends the request with an error response.                        *)
C7_ExactlyOneCall ==
    /\ Len(calls) <= 1
    /\ (Accepted /\ pc \in {"awaiting", "replied", "done"})
          => /\ Len(calls) = 1
             /\ op = "create" =>
                   (calls[1].method = "POST"
                    /\ calls[1].path = "/api/v5/customers/create")
             /\ op = "list" =>
                   (calls[1].method = "GET"
                    /\ calls[1].path = "/api/v5/customers")
    /\ (Accepted /\ Done /\ UpstreamFailed) => resp.error \in ErrorKinds

C7_Witness ==
    /\ Done /\ Accepted /\ op = "create"
    /\ upstream.kind = "timeout"
    /\ Len(calls) = 1
    /\ resp.error = "retailcrm_error"

(* C8: for listing and creation, a timeout of the outbound call gives a    *)
(* response with HTTP status 504, kind retailcrm_error and the fixed       *)
(* timeout message (after the prefix of the endpoint, for creation), and   *)
(* the call is not issued again.                                           *)
C8_Timeout ==
    (Done /\ upstream.kind = "timeout")
        => /\ resp.status = 504
           /\ resp.error = "retailcrm_error"
           /\ resp.message =
                 IF op = "create"
                 THEN <<"Oshibka pri sozdanii klienta: ",
                        "Tajmaut soedineniya s RetailCRM">>
                 ELSE <<"Tajmaut soedineniya s RetailCRM">>
           /\ Len(calls) = 1

C8_Witness ==
    /\ Done /\ op = "list"
    /\ upstream.kind = "timeout"
    /\ resp.status = 504
    /\ resp.message = <<MSG_TIMEOUT>>

(* The text of the dates of the model, written out *)
IsoText(d) ==
    CASE d = [year |-> 2025, month |-> 12, day |-> 15]
            -> <<"2", "0", "2", "5", "-", "1", "2", "-", "1", "5">>
      [] d = [year |-> 2024, month |-> 2, day |-> 29]
            -> <<"2", "0", "2", "4", "-", "0", "2", "-", "2", "9">>

(* C9: with a created_at date D, whatever name and email are, the query    *)
(* of the outbound call has filter[dateFrom] = D and filter[dateTo] = D    *)
(* and no other date parameter; an absent filter field gives no filter     *)
(* parameter; limit and page are always sent.                              *)
C9_DateFilter ==
    \A i \in 1..Len(calls) :
        calls[i].method = "GET" =>
            LET p == calls[i].params
            IN  /\ "limit" \in DOMAIN p /\ p.limit = client_data.limit
                /\ "page" \in DOMAIN p /\ p.page = client_data.page
                /\ DOMAIN p \subseteq
                      {"limit", "page", "filter[name]", "filter[email]",
                       "filter[dateFrom]", "filter[dateTo]"}
                /\ req.created_at # <<>> =>
                      /\ "filter[dateFrom]" \in DOMAIN p
                      /\ "filter[dateTo]" \in DOMAIN p
                      /\ p["filter[dateFrom]"] = IsoText(req.created_at[1])
                      /\ p["filter[dateTo]"] = IsoText(req.created_at[1])
                /\ req.created_at = <<>> =>
                      /\ "filter[dateFrom]" \notin DOMAIN p
                      /\ "filter[dateTo]" \notin DOMAIN p
                /\ req.name = None => "filter[name]" \notin DOMAIN p
                /\ req.email = None => "filter[email]" \notin DOMAIN p

C9_Witness ==
    /\ op = "list" /\ Len(calls) = 1
    /\ req.created_at = <<[year |-> 2024, month |-> 2, day |-> 29]>>
    /\ req.name = None
    /\ req.email # None
    /\ DOMAIN calls[1].params =
          {"limit", "page", "filter[email]", "filter[dateFrom]", "filter[dateTo]"}

(* C10: a listing request that the CRM answers with a successful status    *)
(* and a JSON object whose success is false gets a retailcrm_error whose   *)
(* message is errorMsg (a fixed generic text when errorMsg is absent) and  *)
(* whose details hold the errors of the answer whenever it has them.       *)
C10_ListDomainFailure ==
    (Done /\ op = "list" /\ upstream.kind = "response"
          /\ IsSuccess(upstream.status) /\ upstream.body = "object"
          /\ SuccessIsFalse(upstream.json))
        => /\ resp.error = "retailcrm_error"
           /\ resp.message =
                 <<IF "errorMsg" \in DOMAIN upstream.json
                   THEN upstream.json.errorMsg
                   ELSE "Neizvestnaya oshibka polucheniya">>
           /\ "errors" \in DOMAIN upstream.json
                 => /\ "errors" \in DOMAIN resp.details
                    /\ resp.details.errors = upstream.json.errors

====
